---- MODULE Spec2Model ----
(***************************************************************************)
(* Cricket auction server (src/server.js): the per-room auction state      *)
(* machine, its timers and the socket handlers that drive it.              *)
(*                                                                         *)
(* Money is counted in thousandths (0.001), so that toFixed(2) is a real   *)
(* rounding: 0.25 is 250, 50.006 is 50006.                                 *)
(***************************************************************************)
EXTENDS Integers, Sequences, FiniteSets, TLC

\* --- RULES (src/server.js:116-121) ---
MAX_SQUAD_SIZE == 25
MIN_SQUAD_TO_PLAY == 18
PLAYING_11_SIZE == 11
MAX_OVERSEAS_SQUAD == 8
MAX_OVERSEAS_P11 == 4
BID_INCREMENT == 250

\* auction.timeLeft = 10 in startAuctionTimer
ROUND_SECONDS == 10
\* purse clamp of create-room: Math.max(50, Math.min(500, ...))
MIN_PURSE == 50000
MAX_PURSE == 500000

\* --- bounds of the model ---
\* length of the short catalogue
ShortPool == 2
\* length of the long catalogue (enough to fill a squad and hit the overseas cap)
LongPool == 27
\* overseas players at the head of the long catalogue
LongOverseas == 9
\* how many increments above the base price the enumerated raises go
MaxRaise == 2
\* join-room and leave-room commands of a short game
ShortJoins == 2
ShortLeaves == 1
\* join-room commands of a long game
LongJoins == 1
\* join, leave, rejoin and disconnect commands (each) of a game played in the lobby
LobbyCommands == 1
\* bids other than the host's opening bid of a game played in the lobby
LobbyBids == 1
\* create-room commands after the first of a game with two room ids
TwinCreates == 1
\* rounds let to expire and finish-bidding declarations of a long game
LongExpiries == 1
LongFinishes == 1
\* a game of middle length: its pool, and the lineups and joins it allows
MidPool == 3
MidSubmits == 2
MidJoins == 1
MidRestarts == 1
MidSkips == 1
\* lineups accepted and rejoin-game commands in a game played for its lineups
LineupSubmits == 1
LineupRejoins == 1
\* a game played for its ranking: its pool, the bids other than the host's
\* opening bid, the joins and the lineups it allows
RankPool == 4
RankBids == 2
RankJoins == 1
RankSubmits == 2

Users == {"u1", "u2"}
Sockets == {"s1", "s2"}
RoomIds == {"R1", "R2"}
OneRoom == {"R1"}
Null == "null"
NaN == -1

VARIABLES
    rooms,            \* rooms: room id -> room (the live rooms)
    socketToUserMap,  \* socket id -> user id
    userToSocketMap,  \* user id -> socket id
    emitted,          \* the events the last handler emitted
    playersDb,        \* the catalogue loadPlayerDatabase() returns
    draws,            \* the draws of Math.random in shuffleArray
    conns,            \* the <<socket, user>> pairs the clients connect as
    purses,           \* the purses a create-room command may ask for
    idDraws,          \* the room ids Math.random yields in create-room
    created,          \* a create-room command has been issued
    quota,            \* what the scenario's clients may still do
    history           \* what has happened in each room (not program state)

scenario == <<playersDb, draws, conns, purses, idDraws>>
vars == <<rooms, socketToUserMap, userToSocketMap, emitted, scenario, created, quota,
          history>>

\* ------------------------------------------------------------------ utils

\* f with key k removed / set (JS: delete f[k]; f[k] = v)
Delete(f, k) == [x \in (DOMAIN f) \ {k} |-> f[x]]
Put(f, k, v) == [x \in (DOMAIN f) \cup {k} |-> IF x = k THEN v ELSE f[x]]
Has(f, k) == k \in DOMAIN f
EmptyMap == [x \in {} |-> Null]

\* Number.prototype.toFixed(2) followed by parseFloat, on thousandths (x >= 0)
ToFixed2(x) == ((x + 5) \div 10) * 10

Min(a, b) == IF a < b THEN a ELSE b
Max(a, b) == IF a > b THEN a ELSE b

\* an event: its name, its addressee (a room id for io.to(room), a socket id for
\* socket.emit) and its payload
Ev(name, to, data) == [ev |-> name, to |-> to, data |-> data]
Emit(r, name, data) == [r EXCEPT !.out = Append(@, Ev(name, r.id, data))]

\* ------------------------------------------------------------- game state

Team(userId, purse) ==
    [id |-> userId, purse |-> purse, squad |-> <<>>, isEliminated |-> FALSE,
     isFinishedBidding |-> FALSE, submitted11 |-> FALSE, totalScore |-> 0,
     playing11 |-> <<>>]

\* Object.values(room.teams): the teams in insertion order
TeamList(r) == [i \in 1..Len(r.teamIds) |-> r.teams[r.teamIds[i]]]

\* the payload of teams-updated: of every team its id, purse, squad size, flags
\* and score
TeamsPayload(r) ==
    [i \in 1..Len(r.teamIds) |->
        LET t == r.teams[r.teamIds[i]]
        IN  <<t.id, t.purse, Len(t.squad), t.isEliminated, t.isFinishedBidding,
              t.submitted11, t.totalScore>>]

IsOverseas(p) == p.country = "Overseas"
OverseasCount(squad) == Len(SelectSeq(squad, IsOverseas))

\* auction.playerPool[auction.currentPlayerIndex] (undefined past the end)
Undefined == [id |-> "undefined", basePrice |-> NaN, country |-> "undefined", rating |-> NaN]
CurrentPlayer(r) ==
    IF r.auction.currentPlayerIndex < Len(r.auction.playerPool)
    THEN r.auction.playerPool[r.auction.currentPlayerIndex + 1]
    ELSE Undefined

EliminatedNow(t) == t.purse < BID_INCREMENT /\ Len(t.squad) < MIN_SQUAD_TO_PLAY

\* a variant that flags a team on either condition alone
checkEliminationsEither(r) ==
    [r EXCEPT !.teams = [u \in DOMAIN r.teams |->
        IF r.teams[u].purse < BID_INCREMENT
           \/ Len(r.teams[u].squad) < MIN_SQUAD_TO_PLAY
        THEN [r.teams[u] EXCEPT !.isEliminated = TRUE]
        ELSE r.teams[u]]]

checkEliminations(r) ==
    [r EXCEPT !.teams = [u \in DOMAIN r.teams |->
        IF EliminatedNow(r.teams[u])
        THEN [r.teams[u] EXCEPT !.isEliminated = TRUE]
        ELSE r.teams[u]]]

\* A room carries, next to its two timer handles, the timers Node holds for it:
\* intervals counts the setInterval timers started for the room and not
\* cleared, timeouts the setTimeout calls of prepareNext that are pending.

\* if (auction.timer) { clearInterval(auction.timer); auction.timer = null; }
clearTimer(r) ==
    IF r.auction.timer
    THEN [r EXCEPT !.auction.timer = FALSE, !.intervals = @ - 1]
    ELSE r

\* if (room.nextPlayerTimeout) { clearTimeout(...); room.nextPlayerTimeout = null; }
clearNextPlayerTimeout(r) ==
    IF r.nextPlayerTimeout
    THEN [r EXCEPT !.nextPlayerTimeout = FALSE, !.timeouts = @ - 1]
    ELSE r

endAuctionPhase(r) ==
    Emit([clearTimer(r) EXCEPT !.auction.phase = "SELECTION",
                               !.auction.biddingOpen = FALSE],
         "start-selection-phase", <<>>)

IsActiveBidder(t) ==
    ~t.isEliminated /\ ~t.isFinishedBidding /\ Len(t.squad) < MAX_SQUAD_SIZE

ActiveBidders(r) == {u \in DOMAIN r.teams : IsActiveBidder(r.teams[u])}

\* a variant that ends the auction only when no team is left at all
checkAuctionCompletionNoTeam(r) ==
    IF r.auction.phase # "AUCTION" THEN r
    ELSE IF DOMAIN r.teams = {}
         THEN endAuctionPhase(clearTimer(r))
         ELSE r

checkAuctionCompletion(r) ==
    IF r.auction.phase # "AUCTION" THEN r
    ELSE IF ActiveBidders(r) = {}
         THEN endAuctionPhase(clearTimer(r))
         ELSE r

\* teams.sort((a, b) => b.totalScore - a.totalScore): a stable insertion sort
RECURSIVE InsertByScore(_, _)
InsertByScore(sorted, t) ==
    IF sorted = <<>> THEN <<t>>
    ELSE IF Head(sorted).totalScore >= t.totalScore
         THEN <<Head(sorted)>> \o InsertByScore(Tail(sorted), t)
         ELSE <<t>> \o sorted

RECURSIVE SortByScore(_)
SortByScore(ts) ==
    IF ts = <<>> THEN <<>>
    ELSE InsertByScore(SortByScore(SubSeq(ts, 1, Len(ts) - 1)), ts[Len(ts)])

NotEliminated(t) == ~t.isEliminated

\* a variant that ranks the teams in the order they joined
RankingsUnsorted(r) ==
    LET teams == SelectSeq(TeamList(r), NotEliminated)
    IN  [i \in 1..Len(teams) |-> <<teams[i].id, teams[i].totalScore>>]

\* the rankings of game-over-results: the ranking as <<id, totalScore>> pairs
Rankings(r) ==
    LET teams == SortByScore(SelectSeq(TeamList(r), NotEliminated))
    IN  [i \in 1..Len(teams) |-> <<teams[i].id, teams[i].totalScore>>]

\* { winner: teams[0], rankings: teams } (teams[0] of no team is undefined)
ResultsPayload(r) ==
    LET teams == Rankings(r)
    IN  [winner |-> IF teams = <<>> THEN <<>> ELSE teams[1], rankings |-> teams]

calculateWinner(r) ==
    Emit([r EXCEPT !.auction.phase = "RESULT"], "game-over-results", ResultsPayload(r))

emitResults(r) ==
    IF r.auction.phase = "RESULT"
    THEN Emit(r, "game-over-results", ResultsPayload(r))
    ELSE r

\* ------------------------------------------------------------------ timers

\* a variant that starts a countdown without clearing the one that runs
startAuctionTimerUncleared(r) ==
    [r EXCEPT !.auction.timeLeft = ROUND_SECONDS,
              !.auction.timer = TRUE,
              !.intervals = @ + 1]

startAuctionTimer(r) ==
    [clearTimer(r) EXCEPT !.auction.timeLeft = ROUND_SECONDS,
                          !.auction.timer = TRUE,
                          !.intervals = @ + 1]

\* room.nextPlayerTimeout = setTimeout(..., 3000), a pending one cleared first
scheduleNextPlayer(r) ==
    [clearNextPlayerTimeout(r) EXCEPT !.nextPlayerTimeout = TRUE, !.timeouts = @ + 1]

\* a variant that opens the round with the leader of the round before
startNextPlayerLeaderKept(r) ==
    IF r.auction.phase # "AUCTION" THEN r
    ELSE IF r.auction.currentPlayerIndex >= Len(r.auction.playerPool)
         THEN endAuctionPhase(r)
         ELSE LET player == CurrentPlayer(r)
                  opened == [r EXCEPT !.auction.currentBid = player.basePrice,
                                      !.auction.skippedBy = {},
                                      !.auction.biddingOpen = TRUE]
              IN  startAuctionTimer(
                      Emit(opened, "new-player", <<player.id, player.basePrice>>))

startNextPlayer(r) ==
    IF r.auction.phase # "AUCTION" THEN r
    ELSE IF r.auction.currentPlayerIndex >= Len(r.auction.playerPool)
         THEN endAuctionPhase(r)
         ELSE LET player == CurrentPlayer(r)
                  opened == [r EXCEPT !.auction.currentBid = player.basePrice,
                                      !.auction.currentBidderId = Null,
                                      !.auction.skippedBy = {},
                                      !.auction.biddingOpen = TRUE]
              IN  startAuctionTimer(
                      Emit(opened, "new-player", <<player.id, player.basePrice>>))

\* a variant that leaves the pool index where it is
prepareNextStaying(r) ==
    IF r.auction.phase # "AUCTION" THEN r
    ELSE LET advanced == checkEliminations(r)
         IN  scheduleNextPlayer(
                 Emit(advanced, "teams-updated", TeamsPayload(advanced)))

\* a variant that moves the pool index by two
prepareNextSkipping(r) ==
    IF r.auction.phase # "AUCTION" THEN r
    ELSE LET advanced == checkEliminations(
                 [r EXCEPT !.auction.currentPlayerIndex = @ + 2])
         IN  scheduleNextPlayer(
                 Emit(advanced, "teams-updated", TeamsPayload(advanced)))

prepareNext(r) ==
    IF r.auction.phase # "AUCTION" THEN r
    ELSE LET advanced == checkEliminations(
                 [r EXCEPT !.auction.currentPlayerIndex = @ + 1])
         IN  scheduleNextPlayer(
                 Emit(advanced, "teams-updated", TeamsPayload(advanced)))

finishPlayerUnsold(r) ==
    prepareNext(Emit([r EXCEPT !.auction.biddingOpen = FALSE],
                     "player-unsold", <<CurrentPlayer(r).id>>))

SoldPlayer(player, price) ==
    [id |-> player.id, basePrice |-> player.basePrice, country |-> player.country,
     rating |-> player.rating, soldPrice |-> price]

\* a variant with the operands exchanged
PurseAfterSwapped(purse, finalPrice) == ToFixed2(finalPrice - purse)

\* the purse after a sale: parseFloat((team.purse - finalPrice).toFixed(2))
PurseAfter(purse, finalPrice) == ToFixed2(purse - finalPrice)

finishBidding(r) ==
    LET closed == [r EXCEPT !.auction.biddingOpen = FALSE]
        player == CurrentPlayer(r)
        winnerUserId == r.auction.currentBidderId
        finalPrice == r.auction.currentBid
    IN  IF Has(r.teams, winnerUserId)
        THEN LET team == r.teams[winnerUserId]
             IN  IF finalPrice > team.purse THEN finishPlayerUnsold(closed)
                 ELSE IF Len(team.squad) >= MAX_SQUAD_SIZE THEN finishPlayerUnsold(closed)
                 ELSE LET paid == [closed EXCEPT
                              !.teams[winnerUserId].purse = PurseAfter(@, finalPrice),
                              !.teams[winnerUserId].squad =
                                  Append(@, SoldPlayer(player, finalPrice))]
                          checked == checkEliminations(paid)
                          sold == Emit(checked, "player-sold",
                                       <<player.id, finalPrice, winnerUserId,
                                         checked.teams[winnerUserId].isEliminated>>)
                      IN  prepareNext(checkAuctionCompletion(sold))
        ELSE prepareNext(checkAuctionCompletion(
                 Emit(closed, "player-unsold", <<player.id>>)))

\* --------------------------------------------------------------- scenarios

Player(i, country, rating) ==
    [id |-> i, basePrice |-> 200, country |-> country, rating |-> rating]

\* players.json of a short game
ShortDb == [i \in 1..ShortPool |->
    IF i % 2 = 1 THEN Player(i, "India", 90) ELSE Player(i, "Overseas", 80)]

\* players.json of a long game: the overseas players first
LongDb == [i \in 1..LongPool |->
    IF i <= LongOverseas THEN Player(i, "Overseas", 88) ELSE Player(i, "India", 80)]

\* players.json of a game of middle length
MidDb == [i \in 1..MidPool |-> Player(i, "India", 90)]

\* players.json of a game played for its lineups: five overseas players among
\* six, ratings on both sides of 88, base prices that put the smallest bid at
\* 2.25, 3.5, 6 and 9.33 times the base price
Priced(i, country, rating, basePrice) ==
    [id |-> i, basePrice |-> basePrice, country |-> country, rating |-> rating]

LineupDb == <<Priced(1, "Overseas", 92, 50), Priced(2, "Overseas", 80, 30),
              Priced(3, "India", 84, 200), Priced(4, "Overseas", 92, 30),
              Priced(5, "Overseas", 92, 100), Priced(6, "Overseas", 88, 100)>>

\* players.json of a game played for its ranking: the better players last
RankDb == [i \in 1..RankPool |->
    IF 2 * i <= RankPool THEN Player(i, "India", 80) ELSE Player(i, "India", 92)]

\* the placeholder pool of create-room when the catalogue is empty
ErrorPool == <<[id |-> "error_0", basePrice |-> 0, country |-> "India", rating |-> 0]>>

Reverse(s) == [i \in 1..Len(s) |-> s[Len(s) + 1 - i]]

\* shuffleArray(array): the permutation Math.random draws; the model knows two
\* draws, the one that keeps the order and the one that reverses it
shuffleArray(array, draw) == IF draw = "reverse" THEN Reverse(array) ELSE array

\* what create-room reads as the purse: parseFloat(purse) || 100
ParsePurse(p) == IF p = 0 THEN 100000 ELSE p
ClampPurse(p) == Max(MIN_PURSE, Min(MAX_PURSE, ParsePurse(p)))

\* A scenario is a catalogue, the shuffles drawn, the connections the clients
\* use, the purses they ask for and what they may do beyond the plain game (the host opens every round
\* with the smallest bid and the countdown runs out): so many join-room,
\* leave-room, rejoin-game and disconnect commands, and so many deviations in
\* play: accepted bids other than the host's opening bid, skip votes, rounds let
\* to expire without a bid, finish-bidding declarations, lineups. With
\* free = TRUE the deviations in play are not counted.
OwnSocket == {<<"s1", "u1">>, <<"s2", "u2">>}
AnySocket == Sockets \X Users

NoQuota == [join |-> 0, leave |-> 0, rejoin |-> 0, disconnect |-> 0, bid |-> 0,
            skip |-> 0, expire |-> 0, finish |-> 0, submit |-> 0, restart |-> 0,
            create |-> 0, free |-> FALSE]

ShortGame == [db |-> ShortDb, draws |-> {"keep", "reverse"}, conns |-> OwnSocket,
              purses |-> {0}, ids |-> OneRoom,
              quota |-> [NoQuota EXCEPT !.join = ShortJoins, !.leave = ShortLeaves,
                                        !.free = TRUE]]
LongGame == [db |-> LongDb, draws |-> {"keep"}, conns |-> OwnSocket, purses |-> {0}, ids |-> OneRoom,
             quota |-> [NoQuota EXCEPT !.join = LongJoins, !.expire = LongExpiries,
                                       !.finish = LongFinishes]]
LobbyGame == [db |-> <<>>, draws |-> {"keep"}, conns |-> AnySocket,
              purses |-> {50006}, ids |-> OneRoom,
              quota |-> [NoQuota EXCEPT !.bid = LobbyBids,
                                        !.join = LobbyCommands, !.leave = LobbyCommands,
                                        !.rejoin = LobbyCommands,
                                        !.disconnect = LobbyCommands]]

MidGame == [db |-> MidDb, draws |-> {"keep"}, conns |-> OwnSocket, purses |-> {0}, ids |-> OneRoom,
            quota |-> [NoQuota EXCEPT !.submit = MidSubmits, !.join = MidJoins,
                                      !.restart = MidRestarts, !.skip = MidSkips]]

LineupGame == [db |-> LineupDb, draws |-> {"keep"}, conns |-> OwnSocket, purses |-> {0}, ids |-> OneRoom,
               quota |-> [NoQuota EXCEPT !.submit = LineupSubmits,
                                         !.rejoin = LineupRejoins]]

RankGame == [db |-> RankDb, draws |-> {"keep"}, conns |-> OwnSocket, purses |-> {0}, ids |-> OneRoom,
             quota |-> [NoQuota EXCEPT !.bid = RankBids, !.join = RankJoins,
                                       !.submit = RankSubmits]]

\* a game in which create-room is issued twice and draws one of two room ids
TwinGame == [db |-> ShortDb, draws |-> {"keep"}, conns |-> OwnSocket, purses |-> {0},
             ids |-> RoomIds, quota |-> [NoQuota EXCEPT !.create = TwinCreates]]

Scenarios == {ShortGame, LongGame, LobbyGame, MidGame, LineupGame, RankGame, TwinGame}

\* The clients' commands are enumerated at two moments of a countdown, right
\* after it (re)starts and in its last second, and whenever none is running: no
\* handler reads the seconds left except to replay them to a joiner.
ArrivalTimes == {ROUND_SECONDS, 1}
Arrives(rid) ==
    Has(rooms, rid) /\ rooms[rid].auction.timer
        => rooms[rid].auction.timeLeft \in ArrivalTimes

May(c) == quota[c] > 0
Spend(c) == quota' = [quota EXCEPT ![c] = @ - 1]

\* a step that is a deviation in play, of kind c, when `deviation` holds
Play(c, deviation) ==
    IF deviation /\ ~quota.free THEN May(c) /\ Spend(c) ELSE UNCHANGED quota

Init ==
    /\ rooms = EmptyMap
    /\ socketToUserMap = EmptyMap
    /\ userToSocketMap = EmptyMap
    /\ emitted = <<>>
    /\ created = FALSE
    /\ history = [rid \in RoomIds |-> [opened |-> <<>>, flagged |-> {}, orphans |-> 0]]
    /\ \E sc \in Scenarios :
           /\ playersDb = sc.db
           /\ draws = sc.draws
           /\ conns = sc.conns
           /\ purses = sc.purses
           /\ idDraws = sc.ids
           /\ quota = sc.quota

\* the handler that leaves room r broadcast new-player: it opened a round
OpenedRound(r) ==
    \E i \in 1..Len(r.out) : r.out[i].ev = "new-player" /\ r.out[i].to = r.id

\* the history of room r after a handler: the pool positions a round was opened
\* for, in order, and the users whose team has been flagged eliminated
Record(r) ==
    [history EXCEPT
        ![r.id].opened = IF OpenedRound(r)
                         THEN Append(@, r.auction.currentPlayerIndex) ELSE @,
        ![r.id].flagged = @ \cup {u \in DOMAIN r.teams : r.teams[u].isEliminated}]

\* a handler is done with room r: its events go out, the room is kept
Store(r) ==
    /\ rooms' = Put(rooms, r.id, [r EXCEPT !.out = <<>>])
    /\ emitted' = r.out
    /\ history' = Record(r)

\* a handler returned without touching any room
Ignored == rooms' = rooms /\ emitted' = <<>> /\ UNCHANGED history

EmitTo(r, s, name, data) == [r EXCEPT !.out = Append(@, Ev(name, s, data))]

\* ------------------------------------------------------------ timer events

\* the setInterval callback of startAuctionTimer
TimerTick(r) ==
    LET ticked == Emit([r EXCEPT !.auction.timeLeft = @ - 1],
                       "timer-update", <<r.auction.timeLeft - 1>>)
    IN  IF ticked.auction.timeLeft <= 0
        THEN LET stopped == clearTimer(ticked)
             IN  IF stopped.auction.currentBidderId # Null
                 THEN finishBidding(stopped)
                 ELSE finishPlayerUnsold(stopped)
        ELSE ticked

Tick(rid) ==
    /\ Has(rooms, rid)
    /\ rooms[rid].intervals > 0
    /\ Play("expire", rooms[rid].auction.timeLeft = 1
                       /\ rooms[rid].auction.currentBidderId = Null)
    /\ Store(TimerTick(rooms[rid]))
    /\ UNCHANGED <<socketToUserMap, userToSocketMap, scenario, created>>

\* the setTimeout callback of prepareNext
NextPlayerFire(r) ==
    LET fired == [r EXCEPT !.nextPlayerTimeout = FALSE, !.timeouts = @ - 1]
    IN  IF fired.auction.phase = "AUCTION" THEN startNextPlayer(fired) ELSE fired

NextPlayerTimeout(rid) ==
    /\ Has(rooms, rid)
    /\ rooms[rid].timeouts > 0
    /\ Store(NextPlayerFire(rooms[rid]))
    /\ UNCHANGED <<socketToUserMap, userToSocketMap, scenario, created, quota>>

\* --------------------------------------------------------- socket handlers

\* socketToUserMap[socket.id] = userId; the user's old socket is unmapped; then
\* userToSocketMap[userId] = socket.id (rejoin-game and join-room)
Rebind(s, u) ==
    LET set == Put(socketToUserMap, s, u)
    IN  /\ socketToUserMap' =
               IF Has(userToSocketMap, u) THEN Delete(set, userToSocketMap[u]) ELSE set
        /\ userToSocketMap' = Put(userToSocketMap, u, s)

\* what rejoin-game replays to the socket
RejoinReplay(r, s, u) ==
    LET joined == Emit(EmitTo(r, s, "joined-room", <<r.id, u, r.hostId = u>>),
                       "teams-updated", TeamsPayload(r))
        player == CurrentPlayer(r)
    IN  IF r.auction.phase = "AUCTION" /\ r.auction.biddingOpen
        THEN LET shown == EmitTo(joined, s, "new-player",
                                 <<player.id, r.auction.currentBid>>)
                 led == IF r.auction.currentBidderId # Null
                        THEN EmitTo(shown, s, "bid-updated",
                                    <<r.auction.currentBid, r.auction.currentBidderId>>)
                        ELSE shown
             IN  EmitTo(led, s, "timer-update",
                        <<IF r.auction.timeLeft = 0 THEN 10 ELSE r.auction.timeLeft>>)
        ELSE IF r.auction.phase = "SELECTION"
             THEN EmitTo(joined, s, "start-selection-phase", <<>>)
             ELSE emitResults(joined)

RejoinGame(s, u, rid) ==
    /\ Arrives(rid)
    /\ May("rejoin") /\ Spend("rejoin")
    /\ Rebind(s, u)
    /\ IF Has(rooms, rid) /\ Has(rooms[rid].teams, u)
       THEN Store(RejoinReplay(rooms[rid], s, u))
       ELSE /\ UNCHANGED <<rooms, history>>
            /\ emitted' = <<Ev("error-message", s, <<"Session expired or room closed.">>)>>
    /\ UNCHANGED <<scenario, created>>

NewRoom(rid, u, purse, pool) ==
    [id |-> rid,
     hostId |-> u,
     config |-> [startingPurse |-> purse],
     teams |-> Put(EmptyMap, u, Team(u, purse)),
     teamIds |-> <<u>>,
     auction |-> [playerPool |-> pool, currentPlayerIndex |-> 0, currentBid |-> 0,
                  currentBidderId |-> Null, biddingOpen |-> FALSE, phase |-> "LOBBY",
                  skippedBy |-> {}, timeLeft |-> ROUND_SECONDS, timer |-> FALSE],
     nextPlayerTimeout |-> FALSE,
     intervals |-> 0,
     timeouts |-> 0,
     out |-> <<>>]

\* create-room stores the new room under the id it drew, whatever is there.
\* The first create-room of a game is the plain game's; a further one is a
\* deviation, and one that draws the id of a live room is taken when no timer
\* of that room is running.
CreateRoom(s, u, purse, rid) ==
    /\ Arrives(rid)
    /\ IF created THEN May("create") /\ Spend("create") ELSE UNCHANGED quota
    /\ created' = TRUE
    /\ Has(rooms, rid) => rooms[rid].intervals = 0 /\ rooms[rid].timeouts = 0
    /\ socketToUserMap' = Put(socketToUserMap, s, u)
    /\ userToSocketMap' = Put(userToSocketMap, u, s)
    /\ \E pool \in (IF playersDb = <<>> THEN {ErrorPool}
                    ELSE {shuffleArray(playersDb, d) : d \in draws}) :
         LET r == NewRoom(rid, u, ClampPurse(purse), pool)
             sent == Emit(EmitTo(r, s, "room-created", <<rid, u, TRUE>>),
                          "teams-updated", TeamsPayload(r))
         IN  /\ rooms' = Put(rooms, rid, [sent EXCEPT !.out = <<>>])
             /\ emitted' = sent.out
    /\ history' = [history EXCEPT ![rid].opened = <<>>, ![rid].flagged = {}]
    /\ UNCHANGED scenario

RemoveId(ids, u) == SelectSeq(ids, LAMBDA x : x # u)

\* a variant that gives every joiner a fresh team
JoinTeamFresh(r, s, u) ==
    LET added == [r EXCEPT !.teams = Put(@, u, Team(u, r.config.startingPurse)),
                           !.teamIds = Append(RemoveId(@, u), u)]
        joined == EmitTo(added, s, "joined-room", <<r.id, u, u = r.hostId>>)
        checked == checkEliminations(joined)
    IN  Emit(checked, "teams-updated", TeamsPayload(checked))

JoinTeam(r, s, u) ==
    LET added == IF Has(r.teams, u) THEN r
                 ELSE [r EXCEPT !.teams = Put(@, u, Team(u, r.config.startingPurse)),
                                !.teamIds = Append(@, u)]
        joined == EmitTo(added, s, "joined-room", <<r.id, u, u = r.hostId>>)
        player == CurrentPlayer(r)
        shown == IF r.auction.phase = "AUCTION" /\ r.auction.biddingOpen
                 THEN EmitTo(EmitTo(joined, s, "new-player",
                                    <<player.id, r.auction.currentBid>>),
                             s, "timer-update",
                             <<IF r.auction.timeLeft = 0 THEN 10 ELSE r.auction.timeLeft>>)
                 ELSE IF r.auction.phase = "SELECTION"
                      THEN EmitTo(joined, s, "start-selection-phase", <<>>)
                      ELSE emitResults(joined)
        checked == checkEliminations(shown)
    IN  Emit(checked, "teams-updated", TeamsPayload(checked))

JoinRoom(s, u, rid) ==
    /\ Arrives(rid)
    /\ May("join") /\ Spend("join")
    /\ Rebind(s, u)
    /\ IF ~Has(rooms, rid)
       THEN /\ UNCHANGED <<rooms, history>>
            /\ emitted' = <<Ev("error-message", s, <<"Room not found">>)>>
       ELSE Store(JoinTeam(rooms[rid], s, u))
    /\ UNCHANGED <<scenario, created>>

\* leave-room up to the room's deletion: the team is deleted and the host replaced
LeaveTeam(r, u) ==
    LET left == IF Has(r.teams, u)
                THEN [r EXCEPT !.teams = Delete(@, u), !.teamIds = RemoveId(@, u)]
                ELSE r
    IN  IF r.hostId = u /\ left.teamIds # <<>>
        THEN [left EXCEPT !.hostId = left.teamIds[1]]
        ELSE left

\* a variant that destroys the room with its timers left alone
DestroyedTimersKept(r) == r

\* the room as leave-room leaves it behind when it deletes it: countdown and
\* deferred action cleared
Destroyed(r) == clearNextPlayerTimeout(clearTimer(r))

\* the room is deleted; the timers still held for it will fire with no room
DeleteRoom(r) ==
    /\ rooms' = Delete(rooms, r.id)
    /\ emitted' = <<>>
    /\ history' = [history EXCEPT ![r.id].orphans = @ + r.intervals + r.timeouts]

LeaveRoom(s, u, rid) ==
    /\ Arrives(rid)
    /\ May("leave") /\ Spend("leave")
    /\ IF Has(rooms, rid)
       THEN LET left == LeaveTeam(rooms[rid], u)
            IN  IF rooms[rid].hostId = u /\ left.teamIds = <<>>
                THEN DeleteRoom(Destroyed(left))
                ELSE Store(checkAuctionCompletion(
                         Emit(left, "teams-updated", TeamsPayload(left))))
       ELSE Ignored
    /\ socketToUserMap' = Delete(socketToUserMap, s)
    /\ userToSocketMap' = Delete(userToSocketMap, u)
    /\ UNCHANGED <<scenario, created>>

Disconnect(s) ==
    /\ \A rid \in RoomIds : Arrives(rid)
    /\ May("disconnect") /\ Spend("disconnect")
    /\ socketToUserMap' = Delete(socketToUserMap, s)
    /\ userToSocketMap' =
           IF Has(socketToUserMap, s) /\ Has(userToSocketMap, socketToUserMap[s])
              /\ userToSocketMap[socketToUserMap[s]] = s
           THEN Delete(userToSocketMap, socketToUserMap[s])
           ELSE userToSocketMap
    /\ Ignored
    /\ UNCHANGED <<scenario, created>>

\* a variant that lets a team of any squad size declare itself finished
FinishAcceptedAnySquad(r, u) ==
    /\ Has(r.teams, u)
    /\ ~r.teams[u].isEliminated

FinishAccepted(r, u) ==
    /\ Has(r.teams, u)
    /\ Len(r.teams[u].squad) >= MIN_SQUAD_TO_PLAY
    /\ ~r.teams[u].isEliminated

FinishBiddingForMe(u, rid) ==
    /\ Arrives(rid)
    /\ IF Has(rooms, rid) /\ FinishAccepted(rooms[rid], u)
       THEN LET done == [rooms[rid] EXCEPT !.teams[u].isFinishedBidding = TRUE]
            IN  /\ Store(checkAuctionCompletion(
                       Emit(done, "teams-updated", TeamsPayload(done))))
                /\ Play("finish", TRUE)
       ELSE Ignored /\ UNCHANGED quota
    /\ UNCHANGED <<socketToUserMap, userToSocketMap, scenario, created>>

\* a variant that starts the auction from any phase
StartAcceptedAnyPhase(r, s) ==
    /\ Has(socketToUserMap, s)
    /\ r.hostId = socketToUserMap[s]

\* a variant that lets any connection start the auction
StartAcceptedAnySocket(r, s) == r.auction.phase = "LOBBY"

StartAccepted(r, s) ==
    /\ Has(socketToUserMap, s)
    /\ r.hostId = socketToUserMap[s]
    /\ r.auction.phase = "LOBBY"

StartAuction(s, rid) ==
    /\ Arrives(rid)
    /\ IF Has(rooms, rid) /\ StartAccepted(rooms[rid], s)
       THEN Store(startNextPlayer(
                Emit([rooms[rid] EXCEPT !.auction.phase = "AUCTION"],
                     "auction-started-signal", <<>>)))
       ELSE Ignored
    /\ UNCHANGED <<socketToUserMap, userToSocketMap, scenario, created, quota>>

\* a variant of the conditions of place-bid that does not look at the purse
BidAcceptedAnyPurse(r, u, bidAmount) ==
    /\ r.auction.biddingOpen
    /\ Has(r.teams, u)
    /\ ~r.teams[u].isEliminated
    /\ ~r.teams[u].isFinishedBidding
    /\ Len(r.teams[u].squad) < MAX_SQUAD_SIZE
    /\ bidAmount # NaN
    /\ bidAmount >= r.auction.currentBid + BID_INCREMENT
    /\ (IsOverseas(CurrentPlayer(r))
            => OverseasCount(r.teams[u].squad) < MAX_OVERSEAS_SQUAD)

\* a variant that does not look at the overseas players of the squad
BidAcceptedAnyCountry(r, u, bidAmount) ==
    /\ r.auction.biddingOpen
    /\ Has(r.teams, u)
    /\ ~r.teams[u].isEliminated
    /\ ~r.teams[u].isFinishedBidding
    /\ Len(r.teams[u].squad) < MAX_SQUAD_SIZE
    /\ bidAmount # NaN
    /\ bidAmount >= r.auction.currentBid + BID_INCREMENT
    /\ bidAmount <= r.teams[u].purse

\* the conditions of place-bid, in the order the handler tests them
BidAccepted(r, u, bidAmount) ==
    /\ r.auction.biddingOpen
    /\ Has(r.teams, u)
    /\ ~r.teams[u].isEliminated
    /\ ~r.teams[u].isFinishedBidding
    /\ Len(r.teams[u].squad) < MAX_SQUAD_SIZE
    /\ bidAmount # NaN
    /\ bidAmount >= r.auction.currentBid + BID_INCREMENT
    /\ bidAmount <= r.teams[u].purse
    /\ (IsOverseas(CurrentPlayer(r))
            => OverseasCount(r.teams[u].squad) < MAX_OVERSEAS_SQUAD)

ApplyBid(r, u, bidAmount) ==
    LET bid == [r EXCEPT !.auction.currentBid = ToFixed2(bidAmount),
                         !.auction.currentBidderId = u,
                         !.auction.skippedBy = {}]
    IN  startAuctionTimer(Emit(bid, "bid-updated", <<bid.auction.currentBid, u>>))

\* the amounts a client may send: the smallest raise (up to MaxRaise increments
\* above the base price), the whole purse, one that is too low, one that is too
\* high, and one that is not a number
BidAmounts(r, u) ==
    LET a == r.auction
        raise == a.currentBid + BID_INCREMENT
        base == CurrentPlayer(r).basePrice
    IN  {a.currentBid, NaN}
        \cup (IF raise <= base + MaxRaise * BID_INCREMENT THEN {raise} ELSE {})
        \cup (IF Has(r.teams, u) THEN {r.teams[u].purse, r.teams[u].purse + 4} ELSE {})

\* the plain game's bid: the host opens the round with the smallest bid
OpeningBid(r, u, bidAmount) ==
    /\ u = r.hostId
    /\ r.auction.currentBidderId = Null
    /\ bidAmount = r.auction.currentBid + BID_INCREMENT

PlaceBid(u, rid, bidAmount) ==
    /\ Arrives(rid)
    /\ IF Has(rooms, rid) /\ BidAccepted(rooms[rid], u, bidAmount)
       THEN /\ Store(ApplyBid(rooms[rid], u, bidAmount))
            /\ Play("bid", ~OpeningBid(rooms[rid], u, bidAmount))
       ELSE Ignored /\ UNCHANGED quota
    /\ UNCHANGED <<socketToUserMap, userToSocketMap, scenario, created>>

SkipAccepted(r, u) ==
    /\ r.auction.biddingOpen
    /\ Has(r.teams, u)
    /\ ~r.teams[u].isEliminated
    /\ ~r.teams[u].isFinishedBidding

requiredSkips(r) ==
    IF r.auction.currentBidderId # Null
    THEN Cardinality(ActiveBidders(r)) - 1
    ELSE Cardinality(ActiveBidders(r))

\* a variant that closes the round and leaves the countdown running
ApplySkipTimerKept(r, u) ==
    LET voted == [r EXCEPT !.auction.skippedBy = @ \cup {u}]
    IN  IF Cardinality(voted.auction.skippedBy) >= requiredSkips(voted)
           /\ Cardinality(ActiveBidders(voted)) > 0
        THEN IF voted.auction.currentBidderId # Null
             THEN finishBidding(voted)
             ELSE finishPlayerUnsold(voted)
        ELSE voted

ApplySkip(r, u) ==
    LET voted == [r EXCEPT !.auction.skippedBy = @ \cup {u}]
    IN  IF Cardinality(voted.auction.skippedBy) >= requiredSkips(voted)
           /\ Cardinality(ActiveBidders(voted)) > 0
        THEN LET stopped == clearTimer(voted)
             IN  IF stopped.auction.currentBidderId # Null
                 THEN finishBidding(stopped)
                 ELSE finishPlayerUnsold(stopped)
        ELSE voted

SkipForMe(u, rid) ==
    /\ Arrives(rid)
    /\ IF Has(rooms, rid) /\ SkipAccepted(rooms[rid], u)
       THEN Store(ApplySkip(rooms[rid], u)) /\ Play("skip", TRUE)
       ELSE Ignored /\ UNCHANGED quota
    /\ UNCHANGED <<socketToUserMap, userToSocketMap, scenario, created>>

\* ------------------------------------------------------------------ scoring

Range(s) == {s[i] : i \in 1..Len(s)}

\* The division p.soldPrice / p.basePrice is one of doubles: where the quotient
\* of the two decimals is exactly 4 or 8 the double is exact, where it is
\* exactly 6 the double may fall next to it. QuotientError is the sign of the
\* difference for the base prices of the catalogues of the model:
\* 0.3 / 0.05, 0.6 / 0.1 and 1.2 / 0.2 are 5.999999999999999 and
\* 0.18 / 0.03 is 6.
QuotientError(soldPrice, basePrice) ==
    IF soldPrice = 6 * basePrice /\ basePrice \in {50, 100, 200} THEN -1 ELSE 0

\* factor compared with a threshold k (a base price of 0 gives Infinity: above
\* every threshold)
getEffectiveRating(p) ==
    LET atK(k) == p.soldPrice = k * p.basePrice /\ p.basePrice # 0
        error == QuotientError(p.soldPrice, p.basePrice)
        atLeast(k) == p.soldPrice > k * p.basePrice \/ (atK(k) /\ error >= 0)
                      \/ (p.basePrice = 0 /\ p.soldPrice > 0)
        below(k) == p.soldPrice < k * p.basePrice \/ (atK(k) /\ error < 0)
        above(k) == p.soldPrice > k * p.basePrice \/ (atK(k) /\ error > 0)
        finalRating ==
            IF p.rating > 88 /\ atLeast(8) THEN p.rating - 5
            ELSE IF p.rating > 88 /\ below(6) THEN p.rating + 5
            ELSE IF p.rating < 88 /\ above(6) THEN p.rating - 5
            ELSE IF p.rating < 88 /\ below(4) THEN p.rating + 5
            ELSE p.rating
    IN  Max(0, finalRating)

RECURSIVE SumSeq(_)
SumSeq(s) == IF s = <<>> THEN 0 ELSE Head(s) + SumSeq(Tail(s))

\* team.squad.filter(p => playerIds.includes(p.id))
SelectedPlayers(team, playerIds) ==
    SelectSeq(team.squad, LAMBDA p : p.id \in Range(playerIds))

FindById(players, id) == {i \in 1..Len(players) : players[i].id = id}

\* a variant that lets one player be captain and vice-captain
LineupAcceptedSameCaptain(r, u, playerIds, cId, vcId) ==
    /\ Has(r.teams, u)
    /\ LET team == r.teams[u]
           requiredSelection == Min(PLAYING_11_SIZE, Len(team.squad))
           selectedPlayers == SelectedPlayers(team, playerIds)
       IN  /\ Len(playerIds) = requiredSelection
           /\ Len(selectedPlayers) = requiredSelection
           /\ OverseasCount(selectedPlayers) <= MAX_OVERSEAS_P11
           /\ FindById(selectedPlayers, cId) # {}
           /\ FindById(selectedPlayers, vcId) # {}

LineupAccepted(r, u, playerIds, cId, vcId) ==
    /\ Has(r.teams, u)
    /\ LET team == r.teams[u]
           requiredSelection == Min(PLAYING_11_SIZE, Len(team.squad))
           selectedPlayers == SelectedPlayers(team, playerIds)
       IN  /\ Len(playerIds) = requiredSelection
           /\ Len(selectedPlayers) = requiredSelection
           /\ OverseasCount(selectedPlayers) <= MAX_OVERSEAS_P11
           /\ FindById(selectedPlayers, cId) # {}
           /\ FindById(selectedPlayers, vcId) # {}
           /\ cId # vcId

\* a variant that counts the vice-captain like the captain
LineupScoreViceDouble(selectedPlayers, cId, vcId) ==
    LET captain == selectedPlayers[CHOOSE i \in FindById(selectedPlayers, cId) :
                       \A j \in FindById(selectedPlayers, cId) : i <= j]
        viceCaptain == selectedPlayers[CHOOSE i \in FindById(selectedPlayers, vcId) :
                           \A j \in FindById(selectedPlayers, vcId) : i <= j]
        cEffRating == getEffectiveRating(captain)
        vcEffRating == getEffectiveRating(viceCaptain)
        leadershipBonus == cEffRating * 10 + vcEffRating * 10
        others == SelectSeq(selectedPlayers, LAMBDA p : p.id # cId /\ p.id # vcId)
    IN  cEffRating * 200 + vcEffRating * 200
        + SumSeq([i \in 1..Len(others) |->
                     getEffectiveRating(others[i]) * 100 + leadershipBonus])

\* the total score in hundredths: Math.round(score * 100)
LineupScore(selectedPlayers, cId, vcId) ==
    LET captain == selectedPlayers[CHOOSE i \in FindById(selectedPlayers, cId) :
                       \A j \in FindById(selectedPlayers, cId) : i <= j]
        viceCaptain == selectedPlayers[CHOOSE i \in FindById(selectedPlayers, vcId) :
                           \A j \in FindById(selectedPlayers, vcId) : i <= j]
        cEffRating == getEffectiveRating(captain)
        vcEffRating == getEffectiveRating(viceCaptain)
        leadershipBonus == cEffRating * 10 + vcEffRating * 10
        others == SelectSeq(selectedPlayers, LAMBDA p : p.id # cId /\ p.id # vcId)
    IN  cEffRating * 200 + vcEffRating * 150
        + SumSeq([i \in 1..Len(others) |->
                     getEffectiveRating(others[i]) * 100 + leadershipBonus])

ApplyLineup(r, u, playerIds, cId, vcId) ==
    LET selectedPlayers == SelectedPlayers(r.teams[u], playerIds)
        scored == [r EXCEPT !.teams[u].totalScore =
                                LineupScore(selectedPlayers, cId, vcId),
                            !.teams[u].submitted11 = TRUE,
                            !.teams[u].playing11 = selectedPlayers]
        allSubmitted == \A v \in DOMAIN scored.teams :
                            ~scored.teams[v].isEliminated => scored.teams[v].submitted11
    IN  IF allSubmitted THEN calculateWinner(scored)
        ELSE Emit(scored, "teams-updated", TeamsPayload(scored))

\* the lineups <<playerIds, cId, vcId>> a client may send: the first or the last
\* players of the squad, as many as required, led by the first and the last of
\* them; the same with one player as captain and vice-captain; one player short;
\* a list of the required length that names one player twice; and one whose
\* last entry is no player of the catalogue
LineupInputs(team) ==
    LET ids == [i \in 1..Len(team.squad) |-> team.squad[i].id]
        n == Min(PLAYING_11_SIZE, Len(ids))
        first == SubSeq(ids, 1, n)
        last == SubSeq(ids, Len(ids) - n + 1, Len(ids))
    IN  IF n = 0 THEN {<<<<>>, Null, Null>>}
        ELSE {<<first, first[1], first[n]>>,
              <<last, last[1], last[n]>>,
              <<first, first[1], first[1]>>,
              <<SubSeq(ids, 1, n - 1), first[1], first[n]>>,
              <<[i \in 1..n |-> IF i = n THEN ids[1] ELSE ids[i]], ids[1], ids[1]>>}
             \cup (IF n < 3 THEN {}
                   ELSE {<<[i \in 1..n |-> IF i = n THEN 0 ELSE ids[i]],
                           first[1], first[2]>>})

SubmitPlaying11(u, rid, playerIds, cId, vcId) ==
    /\ Arrives(rid)
    /\ IF Has(rooms, rid) /\ LineupAccepted(rooms[rid], u, playerIds, cId, vcId)
       THEN Store(ApplyLineup(rooms[rid], u, playerIds, cId, vcId))
            /\ Play("submit", TRUE)
       ELSE Ignored /\ UNCHANGED quota
    /\ UNCHANGED <<socketToUserMap, userToSocketMap, scenario, created>>

\* -------------------------------------------------------------- persistence

\* Array.from(set): the members in some order
RECURSIVE SetToSeq(_)
SetToSeq(S) ==
    IF S = {} THEN <<>>
    ELSE LET x == CHOOSE y \in S : TRUE IN <<x>> \o SetToSeq(S \ {x})

\* the snapshot with the skip set written as it is held, a Set, which
\* JSON.stringify renders as {} and loadGameData reads as no vote
cleanRoomSkipsAsSet(r) ==
    [hostId |-> r.hostId, config |-> r.config, teams |-> r.teams, teamIds |-> r.teamIds,
     auction |-> [playerPool |-> r.auction.playerPool,
                  currentPlayerIndex |-> r.auction.currentPlayerIndex,
                  currentBid |-> r.auction.currentBid,
                  currentBidderId |-> r.auction.currentBidderId,
                  biddingOpen |-> r.auction.biddingOpen,
                  phase |-> r.auction.phase,
                  skippedBy |-> <<>>,
                  timeLeft |-> r.auction.timeLeft]]

\* the room as saveGameData writes it: no countdown handle, no deferred action,
\* the skip set as an array (teamIds is the key order of teams, which the
\* JSON text keeps)
cleanRoom(r) ==
    [hostId |-> r.hostId, config |-> r.config, teams |-> r.teams, teamIds |-> r.teamIds,
     auction |-> [playerPool |-> r.auction.playerPool,
                  currentPlayerIndex |-> r.auction.currentPlayerIndex,
                  currentBid |-> r.auction.currentBid,
                  currentBidderId |-> r.auction.currentBidderId,
                  biddingOpen |-> r.auction.biddingOpen,
                  phase |-> r.auction.phase,
                  skippedBy |-> SetToSeq(r.auction.skippedBy),
                  timeLeft |-> r.auction.timeLeft]]

\* the room loadGameData makes of a saved one
LoadedRoom(rid, saved) ==
    [id |-> rid, hostId |-> saved.hostId, config |-> saved.config,
     teams |-> saved.teams, teamIds |-> saved.teamIds,
     auction |-> [playerPool |-> saved.auction.playerPool,
                  currentPlayerIndex |-> saved.auction.currentPlayerIndex,
                  currentBid |-> saved.auction.currentBid,
                  currentBidderId |-> saved.auction.currentBidderId,
                  biddingOpen |-> saved.auction.biddingOpen,
                  phase |-> saved.auction.phase,
                  skippedBy |-> Range(saved.auction.skippedBy),
                  timeLeft |-> saved.auction.timeLeft,
                  timer |-> FALSE],
     nextPlayerTimeout |-> FALSE,
     intervals |-> 0,
     timeouts |-> 0,
     out |-> <<>>]

\* The server stops and starts again: loadGameData reads the rooms back, the
\* timers of the old process are gone and so are the socket maps. The restart
\* is taken when the file holds the rooms as they are: the last change of a
\* room scheduled a save, written within a second, and a tick saves nothing,
\* so with a countdown running it is taken before the first tick.
Restart ==
    /\ May("restart") /\ Spend("restart")
    /\ rooms # EmptyMap
    /\ \A rid \in DOMAIN rooms :
           rooms[rid].auction.timer => rooms[rid].auction.timeLeft = ROUND_SECONDS
    /\ rooms' = [rid \in DOMAIN rooms |-> LoadedRoom(rid, cleanRoom(rooms[rid]))]
    /\ socketToUserMap' = EmptyMap
    /\ userToSocketMap' = EmptyMap
    /\ emitted' = <<>>
    /\ UNCHANGED <<history, scenario, created>>

\* ---------------------------------------------------------- specification

Next ==
    \/ \E rid \in idDraws : Tick(rid)
    \/ \E rid \in idDraws : NextPlayerTimeout(rid)
    \/ \E c \in conns, p \in purses, rid \in idDraws : CreateRoom(c[1], c[2], p, rid)
    \/ \E c \in conns, rid \in idDraws : JoinRoom(c[1], c[2], rid)
    \/ \E c \in conns, rid \in idDraws : RejoinGame(c[1], c[2], rid)
    \/ \E c \in conns, rid \in idDraws : LeaveRoom(c[1], c[2], rid)
    \/ \E s \in Sockets : Disconnect(s)
    \/ \E s \in Sockets, rid \in idDraws : StartAuction(s, rid)
    \/ \E u \in Users, rid \in idDraws : FinishBiddingForMe(u, rid)
    \/ \E u \in Users, rid \in idDraws :
           \E a \in (IF Has(rooms, rid) THEN BidAmounts(rooms[rid], u) ELSE {NaN}) :
               PlaceBid(u, rid, a)
    \/ \E u \in Users, rid \in idDraws : SkipForMe(u, rid)
    \/ \E u \in Users, rid \in idDraws :
           \E l \in (IF Has(rooms, rid) /\ Has(rooms[rid].teams, u)
                     THEN LineupInputs(rooms[rid].teams[u]) ELSE {<<<<>>, Null, Null>>}) :
               SubmitPlaying11(u, rid, l[1], l[2], l[3])
    \/ Restart

Spec == Init /\ [][Next]_vars

\* ------------------------------------------------------------------ claims

Live == DOMAIN rooms
TeamsOf(rid) == DOMAIN rooms[rid].teams
Broadcast(name, rid) ==
    \E i \in 1..Len(emitted) : emitted[i].ev = name /\ emitted[i].to = rid

PhaseRank(phase) ==
    CASE phase = "LOBBY" -> 0
      [] phase = "AUCTION" -> 1
      [] phase = "SELECTION" -> 2
      [] phase = "RESULT" -> 3

\* the step is a create-room that made the room of this id: a new room, in
\* LOBBY, whether or not the id was in use (C34)
Created(rid) ==
    \E i \in 1..Len(emitted') :
        emitted'[i].ev = "room-created" /\ emitted'[i].data[1] = rid

\* C1: in every step the phase of a room stays or moves forward in the order
\* LOBBY, AUCTION, SELECTION, RESULT; so no phase is re-entered and RESULT is
\* never left.
C1_PhaseForward ==
    [][\A rid \in Live :
          rid \in DOMAIN rooms' /\ ~Created(rid)
              => PhaseRank(rooms'[rid].auction.phase)
                     >= PhaseRank(rooms[rid].auction.phase)]_vars

\* a room has reached RESULT and a command was handled there
C1_Witness ==
    \E rid \in Live :
        /\ rooms[rid].auction.phase = "RESULT"
        /\ ~Broadcast("game-over-results", rid)

\* what the claim lists as the conditions of an accepted bid
C2_Conditions(r, u, amount) ==
    /\ r.auction.biddingOpen
    /\ u \in DOMAIN r.teams
    /\ ~r.teams[u].isEliminated
    /\ ~r.teams[u].isFinishedBidding
    /\ Len(r.teams[u].squad) < MAX_SQUAD_SIZE
    /\ amount >= r.auction.currentBid + BID_INCREMENT
    /\ amount <= r.teams[u].purse
    /\ (CurrentPlayer(r).country = "Overseas"
            => OverseasCount(r.teams[u].squad) < MAX_OVERSEAS_SQUAD)

\* the first event of the step is none of these: the step is no place-bid
\* (which emits bid-updated or nothing), no submit-playing-11 (which emits
\* teams-updated or game-over-results when it accepts, nothing when it rejects)
OtherEvent(names) == emitted' # <<>> /\ emitted'[1].ev \notin names

\* of every place-bid step: by the conditions, what the step must have done
C2_BidStep ==
    \/ OtherEvent({"bid-updated"})
    \/ \A rid \in Live : \A u \in Users : \A amount \in BidAmounts(rooms[rid], u) :
        IF C2_Conditions(rooms[rid], u, amount)
        THEN \/ /\ rid \in DOMAIN rooms'
                /\ rooms'[rid].auction.currentBidderId = u
                /\ rooms'[rid].auction.currentBid
                       >= rooms[rid].auction.currentBid + BID_INCREMENT
                /\ amount <= rooms[rid].teams[u].purse
             \/ ~PlaceBid(u, rid, amount)
        ELSE \/ rooms' = rooms /\ emitted' = <<>>
             \/ ~PlaceBid(u, rid, amount)

C3_PurseNonNegative ==
    \A rid \in Live : \A u \in TeamsOf(rid) : rooms[rid].teams[u].purse >= 0

\* a sale has just taken a team's whole purse
C3_Witness ==
    \E rid \in Live : \E u \in TeamsOf(rid) :
        /\ Broadcast("player-sold", rid)
        /\ rooms[rid].teams[u].purse = 0
        /\ rooms[rid].teams[u].squad # <<>>

\* C4: every squad has at most MAX_SQUAD_SIZE players, at most
\* MAX_OVERSEAS_SQUAD of them overseas.
C4_SquadCaps ==
    \A rid \in Live : \A u \in TeamsOf(rid) :
        /\ Len(rooms[rid].teams[u].squad) <= MAX_SQUAD_SIZE
        /\ OverseasCount(rooms[rid].teams[u].squad) <= MAX_OVERSEAS_SQUAD

\* a full squad with the overseas cap reached, while another team can still bid
C4_Witness ==
    \E rid \in Live : \E u \in TeamsOf(rid) :
        /\ Len(rooms[rid].teams[u].squad) = MAX_SQUAD_SIZE
        /\ OverseasCount(rooms[rid].teams[u].squad) = MAX_OVERSEAS_SQUAD
        /\ rooms[rid].auction.biddingOpen
        /\ ActiveBidders(rooms[rid]) # {}

SentTo(events, name, rid) ==
    \E i \in 1..Len(events) : events[i].ev = name /\ events[i].to = rid

\* the room closes a round in this step: sold or unsold is broadcast
ClosesRound(rid) ==
    /\ rid \in DOMAIN rooms'
    /\ SentTo(emitted', "player-sold", rid) \/ SentTo(emitted', "player-unsold", rid)

C5_SoldStep(rid) ==
    LET r == rooms[rid]
        leader == r.auction.currentBidderId
    IN  /\ SentTo(emitted', "player-sold", rid)
        /\ ~SentTo(emitted', "player-unsold", rid)
        /\ leader \in DOMAIN r.teams
        /\ DOMAIN rooms'[rid].teams = DOMAIN r.teams
        /\ rooms'[rid].teams[leader].purse = r.teams[leader].purse - r.auction.currentBid
        /\ rooms'[rid].teams[leader].squad
               = Append(r.teams[leader].squad,
                        SoldPlayer(CurrentPlayer(r), r.auction.currentBid))
        /\ \A v \in DOMAIN r.teams \ {leader} :
               /\ rooms'[rid].teams[v].purse = r.teams[v].purse
               /\ rooms'[rid].teams[v].squad = r.teams[v].squad

\* C5: a round that closes while a leader is set sells the current item to the
\* leader at the current bid: the leader pays exactly the bid and gets exactly
\* that player, no other team changes, and sold (not unsold) is broadcast.
C5_ClosedWithLeaderIsSold ==
    [][\A rid \in Live :
          ClosesRound(rid) /\ rooms[rid].auction.currentBidderId # Null
              => C5_SoldStep(rid)]_vars

\* what the claim gives as the quorum of skip votes reached by u's vote
C6_Quorum(r, u) ==
    LET votes == r.auction.skippedBy \cup {u}
        active == {v \in DOMAIN r.teams :
                      /\ ~r.teams[v].isEliminated
                      /\ ~r.teams[v].isFinishedBidding
                      /\ Len(r.teams[v].squad) < MAX_SQUAD_SIZE}
        required == IF r.auction.currentBidderId # Null
                    THEN Cardinality(active) - 1 ELSE Cardinality(active)
    IN  /\ r.auction.biddingOpen
        /\ u \in DOMAIN r.teams
        /\ ~r.teams[u].isEliminated
        /\ ~r.teams[u].isFinishedBidding
        /\ Cardinality(active) >= 1
        /\ Cardinality(votes) >= required

\* what the countdown running out would do to room r once u has voted
C6_Expiry(r, u) ==
    TimerTick([r EXCEPT !.auction.skippedBy = @ \cup {u}, !.auction.timeLeft = 1])

C6_SkipStep ==
    \A rid \in Live : \A u \in Users :
        SkipForMe(u, rid) /\ C6_Quorum(rooms[rid], u)
            => /\ ~rooms'[rid].auction.biddingOpen
               /\ ~rooms'[rid].auction.timer
               /\ [rooms'[rid] EXCEPT !.auction.timeLeft = 0]
                      = [C6_Expiry(rooms[rid], u) EXCEPT !.out = <<>>]
               /\ emitted' = Tail(C6_Expiry(rooms[rid], u).out)

C7_IndexStep ==
    \A rid \in Live :
        rid \in DOMAIN rooms' /\ ~Created(rid)
            => rooms'[rid].auction.currentPlayerIndex
                   >= rooms[rid].auction.currentPlayerIndex

C7_IndexState ==
    \A rid \in Live :
        /\ rooms[rid].auction.currentPlayerIndex <= Len(rooms[rid].auction.playerPool)
        /\ \A i, j \in 1..Len(history[rid].opened) :
               history[rid].opened[i] = history[rid].opened[j] => i = j

C7_PoolIndex == [][C7_IndexStep /\ C7_IndexState']_vars

\* the pool is exhausted after a round was opened for each of its positions
C7_Witness ==
    \E rid \in Live :
        /\ rooms[rid].auction.currentPlayerIndex = Len(rooms[rid].auction.playerPool)
        /\ Len(history[rid].opened) = Len(rooms[rid].auction.playerPool)
        /\ Len(history[rid].opened) > 1

\* the squad players of a room, as <<team, position in the squad>>
Holdings(rid) ==
    UNION {{<<u, i>> : i \in 1..Len(rooms[rid].teams[u].squad)} : u \in TeamsOf(rid)}

\* C8: no pool item is in two squads or twice in one squad.
C8_SoldOnce ==
    \A rid \in Live : \A h, k \in Holdings(rid) :
        rooms[rid].teams[h[1]].squad[h[2]].id = rooms[rid].teams[k[1]].squad[k[2]].id
            => h = k

\* two teams hold players, and the pool has been gone through
C8_Witness ==
    \E rid \in Live :
        /\ \E u, v \in TeamsOf(rid) :
               /\ u # v
               /\ rooms[rid].teams[u].squad # <<>>
               /\ rooms[rid].teams[v].squad # <<>>
        /\ rooms[rid].auction.currentPlayerIndex = Len(rooms[rid].auction.playerPool)

\* C9: a user whose team has been flagged eliminated in a room has, whenever it
\* has a team in that room later, an eliminated team.
C9_EliminationSticks ==
    \A rid \in Live : \A u \in history[rid].flagged \cap TeamsOf(rid) :
        rooms[rid].teams[u].isEliminated

\* C10: a team is flagged eliminated exactly when its purse is below
\* BID_INCREMENT and its squad below MIN_SQUAD_TO_PLAY.
C10_EliminatedIff ==
    \A rid \in Live : \A u \in TeamsOf(rid) :
        rooms[rid].teams[u].isEliminated
            <=> (rooms[rid].teams[u].purse < BID_INCREMENT
                 /\ Len(rooms[rid].teams[u].squad) < MIN_SQUAD_TO_PLAY)

\* a team is eliminated beside one that is not
C10_Witness ==
    \E rid \in Live : \E u, v \in TeamsOf(rid) :
        /\ rooms[rid].teams[u].isEliminated
        /\ ~rooms[rid].teams[v].isEliminated

\* the teams of room r that can still bid
C11_Active(r) ==
    {u \in DOMAIN r.teams :
        /\ ~r.teams[u].isEliminated
        /\ ~r.teams[u].isFinishedBidding
        /\ Len(r.teams[u].squad) < MAX_SQUAD_SIZE}

\* C11: no room is in phase AUCTION with no active bidder, and no round has
\* just been opened (new-player broadcast) in a room with no active bidder.
C11_AuctionHasBidders ==
    \A rid \in Live :
        /\ rooms[rid].auction.phase = "AUCTION" => C11_Active(rooms[rid]) # {}
        /\ Broadcast("new-player", rid) => C11_Active(rooms[rid]) # {}

\* the auction has just ended before the pool was gone through, because the
\* last active bidder is gone
C11_Witness ==
    \E rid \in Live :
        /\ Broadcast("start-selection-phase", rid)
        /\ rooms[rid].auction.phase = "SELECTION"
        /\ C11_Active(rooms[rid]) = {}
        /\ rooms[rid].auction.currentPlayerIndex < Len(rooms[rid].auction.playerPool)

\* C12: outside phase AUCTION no countdown runs and no round is open.
C12_QuietOutsideAuction ==
    \A rid \in Live :
        rooms[rid].auction.phase # "AUCTION"
            => ~rooms[rid].auction.timer /\ ~rooms[rid].auction.biddingOpen

\* C13: no room that has a non-eliminated team is in SELECTION with the
\* lineup of every non-eliminated team submitted.
C13_SelectionAwaitsLineup ==
    \A rid \in Live :
        /\ rooms[rid].auction.phase = "SELECTION"
        /\ \E u \in TeamsOf(rid) : ~rooms[rid].teams[u].isEliminated
        => \E u \in TeamsOf(rid) :
               /\ ~rooms[rid].teams[u].isEliminated
               /\ ~rooms[rid].teams[u].submitted11

\* C14: every change of phase is LOBBY to AUCTION, AUCTION to SELECTION or
\* SELECTION to RESULT.
C14_PhaseByPhase ==
    [][\A rid \in Live :
          rid \in DOMAIN rooms'
              => \/ rooms'[rid].auction.phase = rooms[rid].auction.phase
                 \/ <<rooms[rid].auction.phase, rooms'[rid].auction.phase>>
                        \in {<<"LOBBY", "AUCTION">>, <<"AUCTION", "SELECTION">>,
                             <<"SELECTION", "RESULT">>}]_vars

\* connection s is bound to the host of room r, which is in the lobby
C15_Conditions(r, s) ==
    /\ s \in DOMAIN socketToUserMap
    /\ socketToUserMap[s] = r.hostId
    /\ r.auction.phase = "LOBBY"

\* the round for pool index 0 is open after the step
C15_Started(rid) ==
    /\ rid \in DOMAIN rooms'
    /\ rooms'[rid].auction.phase = "AUCTION"
    /\ rooms'[rid].auction.currentPlayerIndex = 0
    /\ rooms'[rid].auction.biddingOpen
    /\ rooms'[rid].auction.timer
    /\ \E i \in 1..Len(emitted') :
           /\ emitted'[i].ev = "new-player"
           /\ emitted'[i].to = rid
           /\ emitted'[i].data[1] = rooms[rid].auction.playerPool[1].id
    /\ history'[rid].opened = <<0>>

C15_StartStep ==
    \A rid \in Live :
        /\ \A s \in Sockets :
               IF C15_Conditions(rooms[rid], s)
               THEN C15_Started(rid) \/ ~StartAuction(s, rid)
               ELSE (rooms' = rooms /\ emitted' = <<>>) \/ ~StartAuction(s, rid)
        /\ (/\ rid \in DOMAIN rooms'
            /\ rooms[rid].auction.phase = "LOBBY"
            /\ rooms'[rid].auction.phase # "LOBBY")
           => \E s \in Sockets : C15_Conditions(rooms[rid], s) /\ StartAuction(s, rid)

\* C15: a room leaves LOBBY only by a start-auction command from a connection
\* bound to its host, sent in LOBBY, and that step opens the round for pool
\* index 0; any other start-auction command changes no room and emits nothing.
C15_StartOnlyByHost == [][C15_StartStep]_vars

\* the host has just started the auction of a room with two teams
C15_Witness ==
    \E rid \in Live :
        /\ Broadcast("auction-started-signal", rid)
        /\ rooms[rid].auction.phase = "AUCTION"
        /\ rooms[rid].auction.biddingOpen
        /\ rooms[rid].auction.currentPlayerIndex = 0
        /\ Len(rooms[rid].teamIds) = 2

\* what an accepted bid of `amount` by u leaves behind, but for the current bid
C16_Frame(rid, u) ==
    /\ rid \in DOMAIN rooms'
    /\ rooms'[rid].auction.currentBidderId = u
    /\ rooms'[rid].auction.skippedBy = {}
    /\ rooms'[rid].auction.timer
    /\ rooms'[rid].auction.timeLeft = ROUND_SECONDS
    /\ SentTo(emitted', "bid-updated", rid)
    /\ rooms'[rid].auction.currentPlayerIndex = rooms[rid].auction.currentPlayerIndex
    /\ rooms'[rid].auction.phase = rooms[rid].auction.phase
    /\ rooms'[rid].teams = rooms[rid].teams

\* C16: an accepted bid makes the bid amount the current bid and the bidder the
\* leader, empties the skip set, restarts the countdown at 10 seconds and
\* broadcasts bid-updated; pool index, phase and teams are unchanged.
C16_BidEffects ==
    [][\A rid \in Live : \A u \in Users : \A amount \in BidAmounts(rooms[rid], u) :
          \/ /\ C16_Frame(rid, u)
             /\ rooms'[rid].auction.currentBid = amount
          \/ ~C2_Conditions(rooms[rid], u, amount)
          \/ ~PlaceBid(u, rid, amount)]_vars

\* C17: when a round has just been opened (new-player broadcast to the room),
\* the current bid is the base price of the item at the pool index, there is no
\* leader, the skip set is empty, the round is open and the countdown runs
\* from 10 seconds.
C17_RoundOpensClean ==
    \A rid \in Live :
        Broadcast("new-player", rid)
            => LET a == rooms[rid].auction
               IN  /\ a.currentPlayerIndex < Len(a.playerPool)
                   /\ a.currentBid = a.playerPool[a.currentPlayerIndex + 1].basePrice
                   /\ a.currentBidderId = Null
                   /\ a.skippedBy = {}
                   /\ a.biddingOpen
                   /\ a.timer
                   /\ a.timeLeft = ROUND_SECONDS

\* a round has just been opened after the item before it was sold above its
\* base price
C17_Witness ==
    \E rid \in Live : \E u \in TeamsOf(rid) :
        /\ Broadcast("new-player", rid)
        /\ rooms[rid].auction.currentPlayerIndex >= 1
        /\ rooms[rid].teams[u].squad # <<>>
        /\ LET last == rooms[rid].teams[u].squad[Len(rooms[rid].teams[u].squad)]
           IN  /\ last.id = rooms[rid].auction.playerPool[
                                rooms[rid].auction.currentPlayerIndex].id
               /\ last.soldPrice > last.basePrice

\* the round of a room is OPEN: phase AUCTION, bids accepted, countdown running
OpenRound(r) ==
    r.auction.phase = "AUCTION" /\ r.auction.biddingOpen /\ r.auction.timer

\* C18: in an OPEN round a tick lowers the countdown by exactly 1 and is
\* broadcast; the tick that reaches zero closes the round, the player sold if
\* a leader is set and unsold otherwise.
C18_TickStep(rid) ==
    LET a == rooms[rid].auction
    IN  /\ rid \in DOMAIN rooms'
        /\ rooms'[rid].auction.timeLeft = a.timeLeft - 1
        /\ \E i \in 1..Len(emitted') :
               /\ emitted'[i].ev = "timer-update"
               /\ emitted'[i].to = rid
               /\ emitted'[i].data = <<a.timeLeft - 1>>
        /\ IF a.timeLeft = 1
           THEN /\ ~rooms'[rid].auction.biddingOpen
                /\ ~rooms'[rid].auction.timer
                /\ IF a.currentBidderId # Null
                   THEN SentTo(emitted', "player-sold", rid)
                        /\ ~SentTo(emitted', "player-unsold", rid)
                   ELSE SentTo(emitted', "player-unsold", rid)
                        /\ ~SentTo(emitted', "player-sold", rid)
           ELSE /\ rooms'[rid].auction.biddingOpen
                /\ rooms'[rid].auction.timer
                /\ ~ClosesRound(rid)

C18_CountdownCloses ==
    [][\A rid \in Live :
           \/ ~OpenRound(rooms[rid])
           \/ C18_TickStep(rid)
           \/ ~Tick(rid)]_vars

\* C19: every closure of a round advances the pool index by exactly one and
\* broadcasts the team list with the eliminations re-checked; the pool index
\* changes in no other step.
C19_ClosureStep(rid) ==
    /\ rooms'[rid].auction.currentPlayerIndex = rooms[rid].auction.currentPlayerIndex + 1
    /\ SentTo(emitted', "teams-updated", rid)
    /\ rooms'[rid].teams = checkEliminations(rooms'[rid]).teams

C19_ClosureAdvances ==
    [][\A rid \in Live \cap DOMAIN rooms' :
           IF ClosesRound(rid)
           THEN C19_ClosureStep(rid)
           ELSE rooms'[rid].auction.currentPlayerIndex
                    = rooms[rid].auction.currentPlayerIndex]_vars

\* C20: a room in phase AUCTION always has an OPEN round, a pending deferred
\* next-player action or a running countdown.
C20_AuctionNeverStalls ==
    \A rid \in Live :
        rooms[rid].auction.phase = "AUCTION"
        => \/ rooms[rid].auction.biddingOpen
           \/ rooms[rid].nextPlayerTimeout
           \/ rooms[rid].auction.timer

\* C21: finish-bidding-for-me sets the finished flag of a team only if the team
\* exists, is not eliminated and has at least MIN_SQUAD_TO_PLAY players, and
\* changes nothing otherwise; when accepted the team is no active bidder any
\* more, its eliminated flag, purse and squad are as before and the ranking of
\* the room still lists it.
C21_Conditions(r, u) ==
    /\ u \in DOMAIN r.teams
    /\ ~r.teams[u].isEliminated
    /\ Len(r.teams[u].squad) >= MIN_SQUAD_TO_PLAY

C21_Finished(rid, u) ==
    LET before == rooms[rid].teams[u]
        after == rooms'[rid].teams[u]
    IN  /\ after.isFinishedBidding
        /\ u \notin ActiveBidders(rooms'[rid])
        /\ after.isEliminated = before.isEliminated
        /\ after.purse = before.purse
        /\ after.squad = before.squad
        /\ \E i \in 1..Len(Rankings(rooms'[rid])) : Rankings(rooms'[rid])[i][1] = u

C21_FinishStep ==
    \A rid \in Live : \A u \in Users :
        \/ IF C21_Conditions(rooms[rid], u)
           THEN rid \in DOMAIN rooms' /\ C21_Finished(rid, u)
           ELSE rooms' = rooms /\ emitted' = <<>>
        \/ ~FinishBiddingForMe(u, rid)

C21_FinishOnlyIf == [][C21_FinishStep]_vars

C21_Witness ==
    \E rid \in Live : \E u \in TeamsOf(rid) :
        /\ rooms[rid].teams[u].isFinishedBidding
        /\ Len(rooms[rid].teams[u].squad) >= MIN_SQUAD_TO_PLAY
        /\ Len(emitted) >= 1
        /\ emitted[1].ev = "teams-updated"
        /\ ~Broadcast("player-sold", rid)
        /\ ~Broadcast("player-unsold", rid)
        /\ ~Broadcast("new-player", rid)

\* C22: a lineup is accepted only if the team exists, the selection has exactly
\* min(11, squad size) entries, all of them distinct players of the squad, the
\* captain and the vice-captain are two different selected players and at most
\* MAX_OVERSEAS_P11 selected players are overseas; a rejected lineup leaves the
\* room as it is and broadcasts nothing.
C22_Conditions(r, u, playerIds, cId, vcId) ==
    /\ u \in DOMAIN r.teams
    /\ LET squad == r.teams[u].squad
           squadIds == {squad[i].id : i \in 1..Len(squad)}
           chosen == {playerIds[i] : i \in 1..Len(playerIds)}
       IN  /\ Len(playerIds) = (IF Len(squad) < PLAYING_11_SIZE
                                THEN Len(squad) ELSE PLAYING_11_SIZE)
           /\ Cardinality(chosen) = Len(playerIds)
           /\ chosen \subseteq squadIds
           /\ cId # vcId
           /\ cId \in chosen
           /\ vcId \in chosen
           /\ Cardinality({i \in 1..Len(squad) :
                              squad[i].id \in chosen /\ squad[i].country = "Overseas"})
                  <= MAX_OVERSEAS_P11

C22_LineupStep ==
    \/ rooms' = rooms /\ emitted' = <<>>
    \/ OtherEvent({"teams-updated", "game-over-results"})
    \/ \A rid \in Live : \A u \in Users :
        \A l \in (IF u \in TeamsOf(rid) THEN LineupInputs(rooms[rid].teams[u])
                  ELSE {<<<<>>, Null, Null>>}) :
            \/ C22_Conditions(rooms[rid], u, l[1], l[2], l[3])
            \/ rooms' = rooms /\ emitted' = <<>>
            \/ ~SubmitPlaying11(u, rid, l[1], l[2], l[3])

C22_LineupRejectedUnless == [][C22_LineupStep]_vars

C22_Witness ==
    \E rid \in Live : \E u \in TeamsOf(rid) :
        /\ rooms[rid].auction.phase = "SELECTION"
        /\ OverseasCount(rooms[rid].teams[u].squad) > MAX_OVERSEAS_P11
        /\ Len(rooms[rid].teams[u].squad) <= PLAYING_11_SIZE
        /\ ~rooms[rid].teams[u].submitted11
        /\ rooms[rid].teams[u].totalScore = 0
        /\ emitted = <<>>

\* C23: a lineup sent by a team that has already submitted one is rejected: the
\* score and the stored lineup of the team stay and nothing is broadcast.
C23_ResubmitStep ==
    \/ OtherEvent({"teams-updated", "game-over-results"})
    \/ \A rid \in Live : \A u \in TeamsOf(rid) :
        \A l \in LineupInputs(rooms[rid].teams[u]) :
            \/ ~rooms[rid].teams[u].submitted11
            \/ /\ rid \in DOMAIN rooms'
               /\ u \in DOMAIN rooms'[rid].teams
               /\ rooms'[rid].teams[u].totalScore = rooms[rid].teams[u].totalScore
               /\ rooms'[rid].teams[u].playing11 = rooms[rid].teams[u].playing11
               /\ ~SentTo(emitted', "game-over-results", rid)
               /\ ~SentTo(emitted', "teams-updated", rid)
            \/ ~SubmitPlaying11(u, rid, l[1], l[2], l[3])

C23_ResubmitRejected == [][C23_ResubmitStep]_vars

\* C24: an accepted lineup stores, as the total score of the team, twice the
\* effective rating of the captain plus 1.5 times that of the vice-captain plus,
\* for every other selected player, its effective rating and a tenth of the
\* captain's and of the vice-captain's; the team is marked submitted, its
\* lineup is the selected players and the score of no other team changes.
\* (Scores are counted in hundredths.)
RECURSIVE C24_SumEff(_, _)
C24_SumEff(squad, ids) ==
    IF ids = {} THEN 0
    ELSE LET id == CHOOSE x \in ids : TRUE
             p == squad[CHOOSE i \in 1..Len(squad) : squad[i].id = id]
         IN  getEffectiveRating(p) * 100 + C24_SumEff(squad, ids \ {id})

C24_Expected(squad, playerIds, cId, vcId) ==
    LET chosen == {playerIds[i] : i \in 1..Len(playerIds)}
        effC == C24_SumEff(squad, {cId})
        effVc == C24_SumEff(squad, {vcId})
        others == chosen \ {cId, vcId}
    IN  2 * effC + (3 * effVc) \div 2
        + C24_SumEff(squad, others)
        + Cardinality(others) * ((effC + effVc) \div 10)

C24_Stored(rid, u, playerIds, cId, vcId) ==
    LET team == rooms[rid].teams[u]
        after == rooms'[rid].teams
        chosen == {playerIds[i] : i \in 1..Len(playerIds)}
    IN  /\ after[u].submitted11
        /\ after[u].totalScore = C24_Expected(team.squad, playerIds, cId, vcId)
        /\ {after[u].playing11[i].id : i \in 1..Len(after[u].playing11)} = chosen
        /\ Len(after[u].playing11) = Len(playerIds)
        /\ \A i \in 1..Len(after[u].playing11) :
               \E j \in 1..Len(team.squad) : team.squad[j] = after[u].playing11[i]
        /\ \A v \in DOMAIN rooms[rid].teams \ {u} :
               v \in DOMAIN after /\ after[v].totalScore = rooms[rid].teams[v].totalScore

C24_ScoreStep ==
    \/ emitted' = <<>>
    \/ OtherEvent({"teams-updated", "game-over-results"})
    \/ \A rid \in Live : \A u \in TeamsOf(rid) :
        \A l \in LineupInputs(rooms[rid].teams[u]) :
            \/ ~C22_Conditions(rooms[rid], u, l[1], l[2], l[3])
            \/ /\ rid \in DOMAIN rooms'
               /\ u \in DOMAIN rooms'[rid].teams
               /\ C24_Stored(rid, u, l[1], l[2], l[3])
            \/ ~SubmitPlaying11(u, rid, l[1], l[2], l[3])

C24_ScoreStored == [][C24_ScoreStep]_vars

C24_Witness ==
    \E rid \in Live : \E u \in TeamsOf(rid) :
        LET team == rooms[rid].teams[u]
        IN  /\ team.submitted11
            /\ Len(team.playing11) >= 4
            /\ team.totalScore > 0
            /\ \E i, j \in 1..Len(team.playing11) :
                   /\ getEffectiveRating(team.playing11[i]) > team.playing11[i].rating
                   /\ getEffectiveRating(team.playing11[j]) < team.playing11[j].rating
            /\ Broadcast("game-over-results", rid)

\* C25: the effective rating of a sold player is its rating plus 5, minus 5 or
\* unchanged, floored at 0, as the quotient soldPrice / basePrice decides:
\* above 88, plus 5 below a quotient of 6 and minus 5 from 8 on; below 88, plus
\* 5 below a quotient of 4 and minus 5 above 6; unchanged otherwise.
C25_Rule(p) ==
    LET adjusted ==
            IF p.rating > 88
            THEN (IF p.soldPrice < 6 * p.basePrice THEN p.rating + 5
                  ELSE IF p.soldPrice >= 8 * p.basePrice THEN p.rating - 5
                  ELSE p.rating)
            ELSE IF p.rating < 88
            THEN (IF p.soldPrice < 4 * p.basePrice THEN p.rating + 5
                  ELSE IF p.soldPrice > 6 * p.basePrice THEN p.rating - 5
                  ELSE p.rating)
            ELSE p.rating
    IN  IF adjusted < 0 THEN 0 ELSE adjusted

C25_RatingByQuotient ==
    \A rid \in Live : \A u \in TeamsOf(rid) :
        \A i \in 1..Len(rooms[rid].teams[u].squad) :
            getEffectiveRating(rooms[rid].teams[u].squad[i])
                = C25_Rule(rooms[rid].teams[u].squad[i])

\* C26: every game-over-results event lists exactly the teams of the room that
\* are not eliminated, each with its total score, in the order of
\* non-increasing score, and names the first of them the winner.
C26_Ranked(r, results) ==
    LET rk == results.rankings
    IN  /\ {rk[i][1] : i \in 1..Len(rk)} = {u \in DOMAIN r.teams : ~r.teams[u].isEliminated}
        /\ \A i, j \in 1..Len(rk) : i # j => rk[i][1] # rk[j][1]
        /\ \A i \in 1..Len(rk) : rk[i][2] = r.teams[rk[i][1]].totalScore
        /\ \A i \in 1..Len(rk) - 1 : rk[i][2] >= rk[i + 1][2]
        /\ rk # <<>> => results.winner = rk[1]

C26_ResultsRanked ==
    \A i \in 1..Len(emitted) :
        emitted[i].ev = "game-over-results"
        => /\ emitted[i].to \in Live
           /\ rooms[emitted[i].to].auction.phase = "RESULT"
           /\ C26_Ranked(rooms[emitted[i].to], emitted[i].data)

C26_Witness ==
    \E i \in 1..Len(emitted) :
        /\ emitted[i].ev = "game-over-results"
        /\ emitted[i].to \in Live
        /\ LET r == rooms[emitted[i].to]
               rk == emitted[i].data.rankings
           IN  /\ Len(rk) = 2
               /\ rk[1][2] > rk[2][2]
               /\ rk[2][2] > 0
               /\ r.teamIds = <<rk[2][1], rk[1][1]>>

\* an event of this name and payload is among the events, addressed to `to`
Sent(events, name, to, data) ==
    \E i \in 1..Len(events) :
        events[i].ev = name /\ events[i].to = to /\ events[i].data = data

\* what a rejoin of user u on socket s replays of room r while a round is open
C27_RoundReplayed(r, s) ==
    /\ Sent(emitted', "new-player", s,
            <<r.auction.playerPool[r.auction.currentPlayerIndex + 1].id,
              r.auction.currentBid>>)
    /\ Sent(emitted', "timer-update", s, <<r.auction.timeLeft>>)
    /\ IF r.auction.currentBidderId # Null
       THEN Sent(emitted', "bid-updated", s,
                 <<r.auction.currentBid, r.auction.currentBidderId>>)
       ELSE ~SentTo(emitted', "bid-updated", s)

C27_Unchanged(rid) ==
    /\ rid \in DOMAIN rooms'
    /\ rooms'[rid].teams = rooms[rid].teams
    /\ rooms'[rid].auction = rooms[rid].auction

C27_ErrorOnly(s) ==
    /\ rooms' = rooms
    /\ Len(emitted') = 1
    /\ emitted'[1].ev = "error-message"
    /\ emitted'[1].to = s

\* C27, the part of it that holds: a rejoin of an identity with a team changes
\* no team and no auction field and replays the state of the room to the
\* socket: while a round is open the current player, the current bid, the
\* leader if there is one and the seconds left; in SELECTION the selection
\* signal; in RESULT the current ranking. A rejoin naming a missing room or an
\* identity without a team yields an error message and nothing else.
C27_RejoinStep ==
    \A c \in conns : \A rid \in RoomIds :
        \/ IF rid \in Live /\ c[2] \in DOMAIN rooms[rid].teams
           THEN LET r == rooms[rid]
                IN  /\ C27_Unchanged(rid)
                    /\ SentTo(emitted', "joined-room", c[1])
                    /\ r.auction.phase = "AUCTION" /\ r.auction.biddingOpen
                           => C27_RoundReplayed(r, c[1])
                    /\ r.auction.phase = "SELECTION"
                           => SentTo(emitted', "start-selection-phase", c[1])
                    /\ r.auction.phase = "RESULT"
                           => \E i \in 1..Len(emitted') :
                                  /\ emitted'[i].ev = "game-over-results"
                                  /\ emitted'[i].to = rid
                                  /\ C26_Ranked(r, emitted'[i].data)
           ELSE C27_ErrorOnly(c[1])
        \/ ~RejoinGame(c[1], c[2], rid)

C27_RejoinReplaysOpenRound == [][C27_RejoinStep]_vars

\* C27: a rejoin of an identity with a team replays the state of the room in
\* every phase and sub-state: in every state of phase AUCTION the current
\* player and the seconds left are sent to the socket.
C27_AuctionStep ==
    \A c \in conns : \A rid \in Live :
        \/ ~(c[2] \in DOMAIN rooms[rid].teams /\ rooms[rid].auction.phase = "AUCTION")
        \/ SentTo(emitted', "new-player", c[1]) /\ SentTo(emitted', "timer-update", c[1])
        \/ ~RejoinGame(c[1], c[2], rid)

C27_RejoinReplaysAuction == [][C27_AuctionStep]_vars

C27_Witness ==
    \E rid \in Live : \E s \in Sockets :
        LET r == rooms[rid]
        IN  /\ r.auction.phase = "AUCTION"
            /\ r.auction.biddingOpen
            /\ r.auction.currentBidderId # Null
            /\ r.auction.currentPlayerIndex >= 1
            /\ SentTo(emitted, "joined-room", s)
            /\ Sent(emitted, "bid-updated", s,
                    <<r.auction.currentBid, r.auction.currentBidderId>>)
            /\ Sent(emitted, "timer-update", s, <<r.auction.timeLeft>>)

\* C28: join-room on a room id that does not exist emits an error message and
\* changes no room; by an identity that has a team in the room it leaves that
\* team as it is; otherwise it adds exactly one team, with the starting purse of
\* the room, an empty squad, no flag set and no score, and leaves the other
\* teams and the auction as they are.
C28_NewTeam(r, t, u) ==
    /\ t.id = u
    /\ t.purse = r.config.startingPurse
    /\ t.squad = <<>>
    /\ ~t.isEliminated /\ ~t.isFinishedBidding /\ ~t.submitted11
    /\ t.totalScore = 0

C28_JoinStep ==
    \A c \in conns : \A rid \in RoomIds :
        \/ IF rid \notin Live
           THEN /\ rooms' = rooms
                /\ Len(emitted') = 1
                /\ emitted'[1].ev = "error-message" /\ emitted'[1].to = c[1]
           ELSE /\ rid \in DOMAIN rooms'
                /\ rooms'[rid].auction = rooms[rid].auction
                /\ \A v \in TeamsOf(rid) :
                       v \in DOMAIN rooms'[rid].teams
                       /\ rooms'[rid].teams[v] = rooms[rid].teams[v]
                /\ DOMAIN rooms'[rid].teams = TeamsOf(rid) \cup {c[2]}
                /\ c[2] \notin TeamsOf(rid)
                       => C28_NewTeam(rooms[rid], rooms'[rid].teams[c[2]], c[2])
        \/ ~JoinRoom(c[1], c[2], rid)

C28_JoinAddsOneTeam == [][C28_JoinStep]_vars

C28_Witness ==
    \E rid \in Live : \E u, v \in TeamsOf(rid) : \E s \in Sockets :
        /\ u # v
        /\ rooms[rid].auction.phase = "AUCTION"
        /\ rooms[rid].auction.currentBidderId = v
        /\ rooms[rid].teams[v].squad # <<>>
        /\ C28_NewTeam(rooms[rid], rooms[rid].teams[u], u)
        /\ SentTo(emitted, "joined-room", s)
        /\ SentTo(emitted, "new-player", s)

\* C29: leave-room deletes the team of the leaver; a host that leaves is
\* replaced by one of the remaining teams, and when none remains the room is
\* destroyed with its countdown and its deferred action cancelled. Every live
\* room has a team, its host is one of its teams, and no timer of a destroyed
\* room is left to fire.
C29_LeaveStep ==
    \A c \in conns : \A rid \in Live :
        \/ IF rid \in DOMAIN rooms'
           THEN /\ c[2] \notin DOMAIN rooms'[rid].teams
                /\ \A v \in TeamsOf(rid) \ {c[2]} : v \in DOMAIN rooms'[rid].teams
                /\ rooms'[rid].hostId =
                       IF rooms[rid].hostId = c[2]
                       THEN rooms'[rid].teamIds[1] ELSE rooms[rid].hostId
           ELSE /\ rooms[rid].hostId = c[2]
                /\ TeamsOf(rid) \subseteq {c[2]}
        \/ ~LeaveRoom(c[1], c[2], rid)

C29_Hosted ==
    /\ \A rid \in DOMAIN rooms' :
           /\ DOMAIN rooms'[rid].teams # {}
           /\ rooms'[rid].hostId \in DOMAIN rooms'[rid].teams
    /\ \A rid \in RoomIds : history'[rid].orphans = 0

C29_LeaveKeepsHost == [][C29_LeaveStep /\ C29_Hosted]_vars

C29_Witness ==
    \E rid \in Live :
        /\ rooms[rid].hostId = "u2"
        /\ TeamsOf(rid) = {"u2"}
        /\ rooms[rid].auction.phase = "AUCTION"
        /\ rooms[rid].auction.timer
        /\ Broadcast("teams-updated", rid)
        /\ Len(emitted) = 1

\* C30: a room has at most one running countdown and at most one pending
\* deferred next-player action, and they are the ones its handles name.
C30_OneTimerEach ==
    \A rid \in Live :
        /\ rooms[rid].intervals = (IF rooms[rid].auction.timer THEN 1 ELSE 0)
        /\ rooms[rid].timeouts = (IF rooms[rid].nextPlayerTimeout THEN 1 ELSE 0)

C30_Witness ==
    \E rid \in Live :
        /\ rooms[rid].intervals = 1
        /\ rooms[rid].auction.timeLeft = ROUND_SECONDS
        /\ rooms[rid].auction.currentBidderId # Null
        /\ Cardinality(TeamsOf(rid)) = 2
        /\ Broadcast("bid-updated", rid)
        /\ \E i \in 1..Len(emitted) :
               emitted[i].ev = "bid-updated"
               /\ emitted[i].data[1] >=
                      CurrentPlayer(rooms[rid]).basePrice + 2 * BID_INCREMENT

\* C31: no countdown that was cancelled (by a bid, a skip quorum, a change of
\* phase or the destruction of the room) ticks or closes a round: a tick is one
\* of the single countdown the handle of the room names, and a round closes only
\* in phase AUCTION; a deferred next-player action that fires outside phase
\* AUCTION changes no team and no auction field and opens no round.
C31_TickOfLiveCountdown(rid) ==
    SentTo(emitted', "timer-update", rid)
    => rooms[rid].auction.timer /\ rooms[rid].intervals = 1

C31_ClosureInAuction(rid) ==
    ClosesRound(rid) => rooms[rid].auction.phase = "AUCTION"

C31_LateFire(rid) ==
    \/ rooms[rid].auction.phase = "AUCTION"
    \/ ~rooms[rid].nextPlayerTimeout
    \/ /\ rid \in DOMAIN rooms'
       /\ rooms'[rid].teams = rooms[rid].teams
       /\ rooms'[rid].auction = rooms[rid].auction
       /\ emitted' = <<>>
    \/ ~NextPlayerTimeout(rid)

C31_CancelledNeverActs ==
    [][\A rid \in Live :
           /\ C31_TickOfLiveCountdown(rid)
           /\ C31_ClosureInAuction(rid)
           /\ C31_LateFire(rid)]_vars

\* C32: after a restart of the server every room loaded in phase AUCTION with
\* its round open has a fresh countdown running: the handle is set, one interval
\* timer runs and the time left is the full round.
C32_MidRound(r) == r.auction.phase = "AUCTION" /\ r.auction.biddingOpen

C32_RestartResumesCountdown ==
    [][\/ socketToUserMap' # EmptyMap
       \/ rooms' = rooms
       \/ \A rid \in Live :
              rid \in DOMAIN rooms' /\ C32_MidRound(rooms'[rid])
              => /\ rooms'[rid].auction.timer
                 /\ rooms'[rid].intervals = 1
                 /\ rooms'[rid].auction.timeLeft = ROUND_SECONDS
       \/ ~Restart]_vars

\* C33: a room saved and loaded back at a restart has the same host, the same
\* configuration, the same teams (purses, squads, flags, scores, lineups), the
\* same pool, pool index, current bid, leader, skip votes, round-open flag,
\* phase and seconds remaining; what is saved holds no countdown handle and no
\* deferred-action handle, and both are unset in the loaded room.
C33_Resumable(a) ==
    [playerPool |-> a.playerPool, currentPlayerIndex |-> a.currentPlayerIndex,
     currentBid |-> a.currentBid, currentBidderId |-> a.currentBidderId,
     skippedBy |-> a.skippedBy, biddingOpen |-> a.biddingOpen,
     phase |-> a.phase, timeLeft |-> a.timeLeft]

C33_Restored(old, new) ==
    /\ new.hostId = old.hostId
    /\ new.config = old.config
    /\ new.teams = old.teams
    /\ C33_Resumable(new.auction) = C33_Resumable(old.auction)
    /\ ~new.auction.timer
    /\ ~new.nextPlayerTimeout

C33_NoHandleSaved(r) ==
    /\ "nextPlayerTimeout" \notin DOMAIN cleanRoom(r)
    /\ "timer" \notin DOMAIN cleanRoom(r).auction

C34_Changed(rid) ==
    IF rid \in DOMAIN rooms
    THEN rid \notin DOMAIN rooms' \/ rooms'[rid] # rooms[rid]
    ELSE rid \in DOMAIN rooms'

C34_OneRoomChanges ==
    \A r1, r2 \in RoomIds : C34_Changed(r1) /\ C34_Changed(r2) => r1 = r2

C34_CreateYieldsFreshId ==
    \A i \in 1..Len(emitted') :
        emitted'[i].ev = "room-created" => emitted'[i].data[1] \notin DOMAIN rooms

C34_RoomsIsolated == [][C34_OneRoomChanges /\ C34_CreateYieldsFreshId]_vars

\* the part of C34 that holds: no step changes two rooms
C34_OneRoomPerStep == [][C34_OneRoomChanges]_vars

\* two rooms are live, one of them with its auction under way
C34_TwoRooms ==
    /\ Cardinality(DOMAIN rooms) = 2
    /\ \E rid \in Live : rooms[rid].auction.phase = "AUCTION"

\* C35: a round closes early, by skip votes, only when every active bidder
\* other than the leader (every active bidder, when no leader is set) has voted
\* to skip since the last accepted bid: votes of the leader, of teams that left
\* and of teams with a full squad stand for nobody else's.
C35_EarlyClosure(rid) ==
    ClosesRound(rid) /\ ~SentTo(emitted', "timer-update", rid)

C35_EarlyClosureByQuorum ==
    [][\A rid \in Live :
           C35_EarlyClosure(rid)
           => \A u \in ActiveBidders(rooms[rid]) \ {rooms[rid].auction.currentBidderId} :
                  u \in rooms'[rid].auction.skippedBy]_vars

\* C36: whenever a leader is set in a room, it is a team of the room, not
\* eliminated, whose purse is at least the current bid.
C36_LeaderCanPay ==
    \A rid \in Live :
        LET a == rooms[rid].auction
        IN  a.currentBidderId # Null
            => /\ a.currentBidderId \in TeamsOf(rid)
               /\ ~rooms[rid].teams[a.currentBidderId].isEliminated
               /\ rooms[rid].teams[a.currentBidderId].purse >= a.currentBid

\* C37: for every team in a room, the remaining purse plus the prices paid
\* for the players of its squad equals the starting purse of the room.
C37_Spent(squad) == SumSeq([i \in 1..Len(squad) |-> squad[i].soldPrice])

C37_MoneyConserved ==
    \A rid \in Live : \A u \in TeamsOf(rid) :
        rooms[rid].teams[u].purse + C37_Spent(rooms[rid].teams[u].squad)
            = rooms[rid].config.startingPurse

\* C38: once the phase of a room is SELECTION or RESULT, no purse and no squad
\* of a team of the room changes and no bid is accepted, whatever timer event
\* or command comes (a create-room that draws the room's id makes another room
\* and is left aside here).
C38_AuctionOver(r) == r.auction.phase \in {"SELECTION", "RESULT"}

C38_Frozen(rid) ==
    /\ ~SentTo(emitted', "bid-updated", rid)
    /\ ~SentTo(emitted', "player-sold", rid)
    /\ \A u \in TeamsOf(rid) \cap DOMAIN rooms'[rid].teams :
           /\ rooms'[rid].teams[u].purse = rooms[rid].teams[u].purse
           /\ rooms'[rid].teams[u].squad = rooms[rid].teams[u].squad

C38_NoSaleAfterAuction ==
    [][\A rid \in Live :
           /\ C38_AuctionOver(rooms[rid])
           /\ rid \in DOMAIN rooms'
           /\ ~Created(rid)
           => C38_Frozen(rid)]_vars

\* C39: in SELECTION every team of the room that is not eliminated and has
\* not submitted has a lineup that submit-playing-11 accepts, so that RESULT
\* can be reached by submissions alone. The lineups tried are those the clients
\* send and the required number of the squad's first players under every
\* captain and vice-captain of the squad.
C39_Lineups(team) ==
    LET ids == [i \in 1..Len(team.squad) |-> team.squad[i].id]
        n == Min(PLAYING_11_SIZE, Len(ids))
    IN  LineupInputs(team)
        \cup {<<SubSeq(ids, 1, n), c, v>> : c, v \in Range(ids)}

C39_CanSubmit(r, u) ==
    \E l \in C39_Lineups(r.teams[u]) : LineupAccepted(r, u, l[1], l[2], l[3])

C39_SelectionCanFinish ==
    \A rid \in Live :
        rooms[rid].auction.phase = "SELECTION"
        => \A u \in TeamsOf(rid) :
               ~rooms[rid].teams[u].isEliminated /\ ~rooms[rid].teams[u].submitted11
               => C39_CanSubmit(rooms[rid], u)

\* C40: after a create-room, join-room or rejoin-game of user u received on
\* connection s, the connection-to-identity map resolves s to u, also when the
\* command repeats an earlier one on the same connection; so the host that
\* issued it can start the auction from s while the room is in LOBBY.
C40_Resolves(s, u) == Has(socketToUserMap', s) /\ socketToUserMap'[s] = u

C40_Binds(s, u) ==
    \E rid \in RoomIds :
        \/ \E p \in purses : CreateRoom(s, u, p, rid)
        \/ JoinRoom(s, u, rid)
        \/ RejoinGame(s, u, rid)

C40_SessionBound ==
    [][\A c \in conns : C40_Resolves(c[1], c[2]) \/ ~C40_Binds(c[1], c[2])]_vars


====
